---- MODULE Spec2Model ----
(***************************************************************************)
(* Model of WindowRestore's restoration path:                              *)
(* WindowRestorer::restore_layout / restore_window (window_restorer.rs)    *)
(* with the collaborators it calls: PermissionChecker, DisplayManager,     *)
(* AppLauncher and the osascript child process.                            *)
(*                                                                         *)
(* Every call that leaves the process (the accessibility query, the        *)
(* display query, pgrep, open -b, osascript) is answered by the            *)
(* environment: the action that makes the call draws the answer with \E.   *)
(* Floating point coordinates are modelled by integers.                    *)
(***************************************************************************)
EXTENDS Integers, Sequences, FiniteSets, TLC

\* ---------------------------------------------------------------- bounds
\* Longest layout (number of windows) that is explored.
MaxWindows == 2
\* Number of 100 ms polls that fit into the launch-wait timeout
\* (10000 ms / 100 ms in the code, scaled down).
MaxPolls == 2
\* Number of restore calls made in a row on one WindowRestorer.
MaxCalls == 2

\* ------------------------------------------------------------ input data
Range(s) == {s[i] : i \in 1..Len(s)}

\* WindowInfo values a layout is built from (window_scanner.rs WindowInfo,
\* restricted to the fields the restorer reads).
WindowPool ==
  { [bundle_id |-> "A", app_name |-> "AppA", title |-> "a1",
     display_uuid |-> "D1", x |-> 10, y |-> 20,
     is_minimized |-> FALSE, is_hidden |-> FALSE],
    [bundle_id |-> "A", app_name |-> "AppA", title |-> "a2",
     display_uuid |-> "D2", x |-> 150, y |-> 20,
     is_minimized |-> TRUE, is_hidden |-> FALSE],
    [bundle_id |-> "B", app_name |-> "AppB", title |-> "b1",
     display_uuid |-> "D9", x |-> 10, y |-> 20,
     is_minimized |-> TRUE, is_hidden |-> TRUE],
    [bundle_id |-> "B", app_name |-> "AppB", title |-> "b2",
     display_uuid |-> "D1", x |-> 500, y |-> 500,
     is_minimized |-> FALSE, is_hidden |-> TRUE] }

Apps == {w.bundle_id : w \in WindowPool}

SeqsUpTo(S, n) == UNION {[1..k -> S] : k \in 0..n}

\* The layouts handed to restore_layout.
Layouts == SeqsUpTo(WindowPool, MaxWindows)

\* DisplayInfo records and the display sets a refresh can leave behind.
\* The empty set is what the placeholder body of refresh_displays leaves.
DisplayD1 == [uuid |-> "D1", x |-> 0, y |-> 0, width |-> 100, height |-> 100,
              is_main |-> TRUE]
DisplayD2 == [uuid |-> "D2", x |-> 100, y |-> 0, width |-> 100, height |-> 100,
              is_main |-> FALSE]
Topologies == { {}, {DisplayD1}, {DisplayD1, DisplayD2}, {DisplayD2} }

\* Errors of one try_restore_window_position call: osascript could not be
\* executed, it exited with a failure status, or its output did not end
\* with "OK" (the script returned errMsg, e.g. the process has no window).
ApplyErrors == {"ExecFailed", "StatusFailed", "WindowNotFound"}

NoError == "none"

VARIABLES
  layout,          \* the &Layout argument (its windows)
  pc,              \* position inside restore_layout / restore_window
  displays,        \* DisplayManager.displays
  running,         \* environment: bundle ids that pgrep finds
  li,              \* index of the launch loop (line 68)
  launched_apps,   \* Vec launched_apps (line 67)
  wi,              \* index of the wait loop (line 77)
  elapsed,         \* polls slept in the current wait_for_app
  idx,             \* index of the apply loop (line 88)
  target,          \* (new_x, new_y) of the current window
  attempt,         \* loop variable of the retry loop (line 145)
  last_error,      \* last_error of restore_window (line 143)
  rw_result,       \* value restore_window returned for the current window
  success_count,   \* line 85
  failed_windows,  \* line 86
  result,          \* value restore_layout returned
  \* history of the call, for the properties
  granted,         \* last answer of check_accessibility_permission
  refreshOk,       \* whether the last refresh_displays returned Ok
  permChecks,      \* calls of check_accessibility_permission
  refreshCalls,    \* calls of refresh_displays
  launchLog,       \* bundle ids passed to launch_app, in call order
  pollCount,       \* is_app_running calls made by wait_for_app
  timedOut,        \* bundle ids whose wait_for_app timed out
  settleCount,     \* settle sleeps (line 82)
  processed,       \* window indices handed to restore_window, in order
  winLog,          \* current window: attempt results and backoff sleeps
  applyCount,      \* try_restore_window_position calls of the whole call
  pauses           \* inter-window sleeps (line 101)

VARIABLES
  calls,           \* number of the restore call in hand (1 for the first)
  prev             \* what the previous restore call returned, for C13

VARIABLES
  files,           \* the layouts directory: file name -> content
  clock,           \* what Utc::now() reads
  op,              \* per caller: the LayoutManager call in progress
  ret,             \* per caller: the call that returned last, and its value
  saved,           \* per name: the last successful save, while untouched
  firstCreated,    \* per name: created_at of the first save of the record
  tampered,        \* names whose file was edited from outside
  wrote            \* per caller: what its save found and the record it built

VARIABLES
  LAST_ERROR_MESSAGE,  \* the static of ffi.rs line 14
  ffi              \* per thread: the extern "C" call in progress or returned

ffiVars == <<LAST_ERROR_MESSAGE, ffi>>

\* What no step of restore_layout and no LayoutManager operation touches.
callVars == <<calls, prev, ffiVars>>
storeVars == <<files, clock, op, ret, saved, firstCreated, tampered, wrote>>

vars == <<layout, pc, displays, running, li, launched_apps, wi, elapsed, idx,
          target, attempt, last_error, rw_result, success_count,
          failed_windows, result, granted, refreshOk, permChecks,
          refreshCalls, launchLog, pollCount, timedOut, settleCount,
          processed, winLog, applyCount, pauses, callVars, storeVars>>

ctrl == <<li, launched_apps, wi, elapsed, idx, target, attempt, last_error,
          rw_result, success_count, failed_windows>>
hist == <<granted, refreshOk, permChecks, refreshCalls, launchLog,
          pollCount, timedOut, settleCount, processed, winLog, applyCount,
          pauses>>

\* ====================================== LayoutManager (layout_manager.rs)
\* Strings are sequences of characters; f64 values are integers, with three
\* reserved values for the non-finite ones.

\* Latest reading of the clock that is explored.
MaxClock == 2
NaN == 9999
PosInf == 9998
NegInf == 0 - 9998

\* f64::is_finite
is_finite(v) == v \notin {NaN, PosInf, NegInf}

\* v < 0.0 on f64: false for NaN.
IsNegative(v) == v # NaN /\ v < 0

Whitespace == {" "}

\* str::trim: the string without its leading and trailing whitespace.
RECURSIVE TrimStart(_)
TrimStart(str) ==
  IF str # <<>> /\ Head(str) \in Whitespace THEN TrimStart(Tail(str)) ELSE str

RECURSIVE TrimEnd(_)
TrimEnd(str) ==
  IF str # <<>> /\ str[Len(str)] \in Whitespace
  THEN TrimEnd(SubSeq(str, 1, Len(str) - 1))
  ELSE str

Trim(str) == TrimEnd(TrimStart(str))

\* Variant of the list below that misses its last character.
invalid_chars_short == {"/", "\\", ":", "*", "?", "\"", "<", ">"}

\* let invalid_chars = [...] (line 64)
invalid_chars == {"/", "\\", ":", "*", "?", "\"", "<", ">", "|"}

\* validate_layout_name (60-69): "Ok" or the error.
validate_layout_name(name) ==
  IF Trim(name) = <<>> THEN "NameEmpty"
  ELSE IF \E i \in 1..Len(name) : name[i] \in invalid_chars
       THEN "NameInvalidChars"
       ELSE "Ok"

\* The check of one window in validate_layout (77-91): "Ok" or the error.
validate_window(w) ==
  IF Trim(w.app_name) = <<>> THEN "AppNameEmpty"
  ELSE IF Trim(w.title) = <<>> THEN "TitleEmpty"
  ELSE IF \/ ~is_finite(w.width)
          \/ ~is_finite(w.height)
          \/ IsNegative(w.width)
          \/ IsNegative(w.height) THEN "InvalidSize"
  ELSE IF ~is_finite(w.x) \/ ~is_finite(w.y) THEN "InvalidPosition"
  ELSE IF Trim(w.display_uuid) = <<>> THEN "DisplayEmpty"
  ELSE "Ok"

\* The loop of validate_layout from window i on: the first error, else "Ok".
RECURSIVE validate_windows(_, _)
validate_windows(ws, i) ==
  IF i > Len(ws) THEN "Ok"
  ELSE IF validate_window(ws[i]) # "Ok" THEN validate_window(ws[i])
  ELSE validate_windows(ws, i + 1)

\* validate_layout (74-94).
validate_layout(l) ==
  IF validate_layout_name(l.layout_name) # "Ok"
  THEN validate_layout_name(l.layout_name)
  ELSE validate_windows(l.windows, 1)

NameErrors == {"NameEmpty", "NameInvalidChars"}
WindowErrors == {"AppNameEmpty", "TitleEmpty", "InvalidSize",
                 "InvalidPosition", "DisplayEmpty"}

\* ---------------------------------------------------------------- inputs
StoreWindow(app, bundle, title, x, y, width, height, display, level, min) ==
  [app_name |-> app, bundle_id |-> bundle, title |-> title, x |-> x, y |-> y,
   width |-> width, height |-> height, display_uuid |-> display,
   window_level |-> level, is_minimized |-> min, is_hidden |-> FALSE]

\* WindowLevel discriminants (window_scanner.rs 27-32).
LevelNormal == 0
LevelFloating == 3
LevelModal == 8
LevelDock == 20

EditorWindow ==
  StoreWindow(<<"E">>, <<"c">>, <<"m">>, 10, 20, 300, 200, <<"D">>,
              LevelNormal, FALSE)
TermWindow ==
  StoreWindow(<<"T">>, <<>>, <<"t", " ", "x">>, 0 - 5, 0, 0, 0, <<"D">>,
              LevelFloating, TRUE)

ValidWindows == {EditorWindow, TermWindow}

\* Windows that break one rule of validate_layout each.
InvalidWindows ==
  { [EditorWindow EXCEPT !.app_name = <<" ">>],
    [EditorWindow EXCEPT !.title = <<>>],
    [EditorWindow EXCEPT !.display_uuid = <<" ", " ">>],
    [EditorWindow EXCEPT !.width = NaN],
    [EditorWindow EXCEPT !.width = 0 - 1],
    [EditorWindow EXCEPT !.height = PosInf],
    [EditorWindow EXCEPT !.height = 0 - 300],
    [EditorWindow EXCEPT !.x = NegInf],
    [EditorWindow EXCEPT !.y = NaN] }

\* The valid window lists that are saved: both orders of the two windows.
ValidLists ==
  { <<>>, <<EditorWindow>>, <<EditorWindow, TermWindow>>,
    <<TermWindow, EditorWindow>> }

\* The window lists handed to save_layout: the valid ones, and lists with
\* one invalid window, alone or after a valid one.
SaveInputs ==
  ValidLists
    \cup { <<b>> : b \in InvalidWindows }
    \cup { <<EditorWindow, [TermWindow EXCEPT !.title = <<" ">>]>>,
           <<EditorWindow, [TermWindow EXCEPT !.height = 0 - 1]>> }

ValidNames == { <<"a">>, <<"b", " ", "b">>, <<"B">>, <<"a", "b">> }
InvalidNames ==
  { <<>>, <<" ">>, <<" ", " ">> }
    \cup { <<"a", c, "b">> :
             c \in {"/", "\\", ":", "*", "?", "\"", "<", ">", "|"} }
NamePool == ValidNames \cup InvalidNames

\* ------------------------------------------------- serde_json, as tokens
\* The JSON name of a WindowLevel (rename_all = "PascalCase").
LevelName(level) ==
  CASE level = LevelNormal -> "Normal"
    [] level = LevelFloating -> "Floating"
    [] level = LevelModal -> "Modal"
    [] level = LevelDock -> "Dock"

LevelNames == {"Normal", "Floating", "Modal", "Dock"}

\* The WindowLevel a JSON name deserializes to (a known name is assumed).
LevelOf(name) ==
  CASE name = "Normal" -> LevelNormal
    [] name = "Floating" -> LevelFloating
    [] name = "Modal" -> LevelModal
    [] name = "Dock" -> LevelDock

Token(t, v) == [t |-> t, v |-> v]

\* The JSON object of one WindowInfo.
WindowToJson(w) ==
  [app_name |-> w.app_name, bundle_id |-> w.bundle_id, title |-> w.title,
   frame |-> [x |-> w.x, y |-> w.y, width |-> w.width, height |-> w.height],
   display_uuid |-> w.display_uuid, window_level |-> LevelName(w.window_level),
   is_minimized |-> w.is_minimized, is_hidden |-> w.is_hidden]

\* The WindowInfo of a JSON object.
WindowFromJson(j) ==
  [app_name |-> j.app_name, bundle_id |-> j.bundle_id, title |-> j.title,
   x |-> j.frame.x, y |-> j.frame.y, width |-> j.frame.width,
   height |-> j.frame.height, display_uuid |-> j.display_uuid,
   window_level |-> LevelOf(j.window_level),
   is_minimized |-> j.is_minimized, is_hidden |-> j.is_hidden]

HeaderLen == 5

\* serde_json::to_string_pretty(&layout) (line 125): the text of the
\* record, as the sequence of its pieces.
Serialize(l) ==
  << Token("open", 0),
     Token("layout_name", l.layout_name),
     Token("created_at", l.created_at),
     Token("updated_at", l.updated_at),
     Token("windows", 0) >>
  \o [i \in 1..Len(l.windows) |-> Token("window", WindowToJson(l.windows[i]))]
  \o << Token("end_windows", 0), Token("close", 0) >>

\* Whether a text is the text of a Layout record.
WellFormed(text) ==
  /\ Len(text) >= HeaderLen + 2
  /\ text[1].t = "open"
  /\ text[2].t = "layout_name"
  /\ text[3].t = "created_at"
  /\ text[4].t = "updated_at"
  /\ text[5].t = "windows"
  /\ text[Len(text) - 1].t = "end_windows"
  /\ text[Len(text)].t = "close"
  /\ \A i \in (HeaderLen + 1)..(Len(text) - 2) :
       /\ text[i].t = "window"
       /\ text[i].v.window_level \in LevelNames

\* serde_json::from_str::<Layout>(&json) (lines 107, 140).
Parse(text) ==
  IF WellFormed(text)
  THEN [ok |-> TRUE,
        layout |-> [layout_name |-> text[2].v,
                    created_at |-> text[3].v,
                    updated_at |-> text[4].v,
                    windows |-> [i \in 1..(Len(text) - HeaderLen - 2) |->
                                   WindowFromJson(text[HeaderLen + i].v)]]]
  ELSE [ok |-> FALSE,
        layout |-> [layout_name |-> <<>>, created_at |-> 0, updated_at |-> 0,
                    windows |-> <<>>]]

\* layouts_dir.join(format!("{}.json", name)) (lines 102, 138, 174).
FileOf(name) == Append(name, ".json")

\* ------------------------------------------------------ callers, results
\* The callers of the LayoutManager.
Procs == {1, 2}

\* A caller that is in no call.
Idle ==
  [kind |-> "idle", step |-> "none", name |-> <<>>, windows |-> <<>>,
   created_at |-> 0, updated_at |-> 0, buf |-> <<>>, off |-> 0]

\* The Layout of a result that carries none.
NoLayout ==
  [layout_name |-> <<>>, created_at |-> 0, updated_at |-> 0, windows |-> <<>>]

\* Result values of the LayoutManager's operations.
StoreOk(value) ==
  [tag |-> "Ok", err |-> "none", value |-> value, names |-> <<>>]
StoreErr(e) == [tag |-> "Err", err |-> e, value |-> NoLayout, names |-> <<>>]
\* The result of list_layouts.
ListOk(names) ==
  [tag |-> "Ok", err |-> "none", value |-> NoLayout, names |-> names]

\* What a caller got from its last call.
Returns(kind, name, val) == [kind |-> kind, name |-> name, val |-> val]
NoReturn ==
  Returns("none", <<>>,
          [tag |-> "none", err |-> "none", value |-> NoLayout, names |-> <<>>])

\* What a save of a caller found under its name when it was called (whether
\* there was a file, and the created_at and updated_at of a complete record,
\* if there was one) and the record it built; nothing for a caller whose
\* last call was no save.
NoWrote ==
  [before |-> [set |-> FALSE, at |-> 0, updated |-> 0, found |-> FALSE],
   layout |-> NoLayout]

\* What is known of the last save under a name: nothing, or its windows.
NotSaved == [set |-> FALSE, windows |-> <<>>]
\* The created_at of the first save of the record under a name, if any.
NoneCreated == [set |-> FALSE, at |-> 0]

\* Result values of restore_layout.
NotReturned == [tag |-> "running", err |-> NoError]
Ok == [tag |-> "Ok", err |-> NoError]
Err(e) == [tag |-> "Err", err |-> e]

\* Summary of a returned restore call: whether every application was
\* already running and no apply attempt failed, and whether every window
\* was counted as restored.
NoPrevious == [scenario |-> FALSE, allRestored |-> FALSE]

\* The locals and the history of a restore call that is about to start.
CallStart ==
  /\ pc = "check_permission"
  /\ li = 1
  /\ launched_apps = <<>>
  /\ wi = 1
  /\ elapsed = 0
  /\ idx = 1
  /\ target = <<0, 0>>
  /\ attempt = 1
  /\ last_error = NoError
  /\ rw_result = NoError
  /\ success_count = 0
  /\ failed_windows = <<>>
  /\ result = NotReturned
  /\ granted = FALSE
  /\ refreshOk = FALSE
  /\ permChecks = 0
  /\ refreshCalls = 0
  /\ launchLog = <<>>
  /\ pollCount = 0
  /\ timedOut = {}
  /\ settleCount = 0
  /\ processed = <<>>
  /\ winLog = <<>>
  /\ applyCount = 0
  /\ pauses = 0

\* No LayoutManager call is made: the store is empty and stays so.
\* A thread that has made no extern "C" call.
NoFfi ==
  [fn |-> "none", stage |-> "none", name |-> <<>>,
   scan |-> [ok |-> TRUE, windows |-> <<>>], code |-> 0, err |-> "none"]

\* No extern "C" call was made: the Mutex holds None.
FfiStart ==
  /\ LAST_ERROR_MESSAGE = "None"
  /\ ffi = [p \in Procs |-> NoFfi]

StoreStart ==
  /\ files = <<>>
  /\ clock = 0
  /\ op = [p \in Procs |-> Idle]
  /\ ret = [p \in Procs |-> NoReturn]
  /\ saved = [n \in NamePool |-> NotSaved]
  /\ firstCreated = [n \in NamePool |-> NoneCreated]
  /\ tampered = {}
  /\ wrote = [p \in Procs |-> NoWrote]

Init ==
  /\ layout \in Layouts
  /\ displays = {}
  /\ running \in SUBSET Apps
  /\ CallStart
  /\ calls = 1
  /\ prev = NoPrevious
  /\ FfiStart
  /\ StoreStart

\* ------------------------------------------------- restore_layout, 58-64
\* Variant without the early return: the call goes on whatever the answer.
AfterPermission_NoReturn(g) == "refresh"

\* Where restore_layout goes after the permission check (lines 59-61).
AfterPermission(g) ==
  IF g THEN "refresh" ELSE "returned"

\* check_accessibility_permission() and the early return of lines 59-61.
CheckPermission ==
  /\ pc = "check_permission"
  /\ \E g \in BOOLEAN :
       /\ granted' = g
       /\ pc' = AfterPermission(g)
       /\ result' = IF g THEN result ELSE Err("PermissionRequired")
  /\ permChecks' = permChecks + 1
  /\ UNCHANGED <<layout, displays, running, ctrl, refreshOk, refreshCalls,
                 launchLog, pollCount, timedOut, settleCount, processed,
                 winLog, applyCount, pauses, callVars, storeVars>>

\* Variant that drops the ? : a failed refresh is ignored.
AfterRefresh_IgnoreError(ok) == "launch"

\* Where restore_layout goes after refresh_displays()? (line 64).
AfterRefresh(ok) ==
  IF ok THEN "launch" ELSE "returned"

\* self.display_manager.refresh_displays()? : the display set is replaced;
\* an Err is propagated by the ? operator.
RefreshDisplays ==
  /\ pc = "refresh"
  /\ \E ok \in BOOLEAN :
       /\ refreshOk' = ok
       /\ pc' = AfterRefresh(ok)
       /\ result' = IF ok THEN result ELSE Err("RefreshFailed")
       /\ displays' \in (IF ok THEN Topologies ELSE {{}})
  /\ refreshCalls' = refreshCalls + 1
  /\ UNCHANGED <<layout, running, ctrl, granted, permChecks, launchLog,
                 pollCount, timedOut, settleCount, processed, winLog,
                 applyCount, pauses, callVars, storeVars>>

\* ------------------------------------------------ AppLauncher, 41-51
\* is_app_running(bundle_id): the exit status of pgrep. A bundle id that
\* is found stays found; one whose launch was requested may have come up
\* since the last look; any other is not found.
PgrepAnswers(b) ==
  IF b \in running THEN {TRUE}
  ELSE IF b \in Range(launchLog) THEN BOOLEAN
  ELSE {FALSE}

\* ------------------------------------------------- restore_layout, 66-74
\* One iteration of the launch loop: is_app_running, then launch_app(..)?
\* and the push to launched_apps. A failed launch_app leaves the call.
LaunchStep ==
  /\ pc = "launch"
  /\ li <= Len(layout)
  /\ LET b == layout[li].bundle_id IN
     \E r \in PgrepAnswers(b) :
       /\ running' = IF r THEN running \cup {b} ELSE running
       /\ IF r
          THEN /\ li' = li + 1
               /\ UNCHANGED <<pc, launched_apps, launchLog, result>>
          ELSE /\ launchLog' = Append(launchLog, b)
               /\ \E ok \in BOOLEAN :
                    IF ok
                    THEN /\ launched_apps' = Append(launched_apps, b)
                         /\ li' = li + 1
                         /\ UNCHANGED <<pc, result>>
                    ELSE /\ pc' = "returned"
                         /\ result' = Err("LaunchFailed")
                         /\ UNCHANGED <<li, launched_apps>>
  /\ UNCHANGED <<layout, displays, wi, elapsed, idx, target, attempt,
                 last_error, rw_result, success_count, failed_windows,
                 refreshOk, granted, permChecks, refreshCalls, pollCount,
                 timedOut, settleCount, processed, winLog, applyCount,
                 pauses, callVars, storeVars>>

\* Variant in which the wait loop of lines 76-79 is passed over.
AfterLaunchLoop_SkipWait == "settle"

\* What follows the launch loop: the wait loop (line 76).
AfterLaunchLoop == "wait"

\* The launch loop has visited every window (line 74).
LaunchDone ==
  /\ pc = "launch"
  /\ li > Len(layout)
  /\ pc' = AfterLaunchLoop
  /\ UNCHANGED <<layout, displays, running, ctrl, result, hist, callVars,
                 storeVars>>

\* ------------------------------ restore_layout 76-79, wait_for_app 74-87
\* One pass of the polling loop of wait_for_app: is_app_running, and the
\* 100 ms sleep when the application is not there yet.
WaitPoll ==
  /\ pc = "wait"
  /\ wi <= Len(launched_apps)
  /\ elapsed < MaxPolls
  /\ LET b == launched_apps[wi] IN
     \E r \in PgrepAnswers(b) :
       /\ running' = IF r THEN running \cup {b} ELSE running
       /\ IF r
          THEN wi' = wi + 1 /\ elapsed' = 0
          ELSE wi' = wi /\ elapsed' = elapsed + 1
  /\ pollCount' = pollCount + 1
  /\ UNCHANGED <<layout, pc, displays, li, launched_apps, idx, target,
                 attempt, last_error, rw_result, success_count,
                 failed_windows, result, refreshOk, granted, permChecks,
                 refreshCalls, launchLog, timedOut, settleCount, processed,
                 winLog, applyCount, pauses, callVars, storeVars>>

\* Variant in which the call goes on to the settle delay after a timeout.
AfterWaitTimeout_GoOn == "settle"

\* Variant in which the timeout does not end the wait.
AfterWaitTimeout_KeepWaiting == "wait"

\* Where restore_layout goes when wait_for_app returns Err (line 78: ?).
AfterWaitTimeout == "returned"

\* wait_for_app ran out of time: Err(Timeout waiting for app to start).
WaitTimeout ==
  /\ pc = "wait"
  /\ wi <= Len(launched_apps)
  /\ elapsed >= MaxPolls
  /\ timedOut' = timedOut \cup {launched_apps[wi]}
  /\ pc' = AfterWaitTimeout
  /\ result' = Err("LaunchTimeout")
  /\ UNCHANGED <<layout, displays, running, ctrl, granted, refreshOk,
                 permChecks, refreshCalls, launchLog, pollCount, settleCount,
                 processed, winLog, applyCount, pauses, callVars, storeVars>>

\* The wait loop has visited every launched application (line 79).
WaitDone ==
  /\ pc = "wait"
  /\ wi > Len(launched_apps)
  /\ pc' = "settle"
  /\ UNCHANGED <<layout, displays, running, ctrl, result, hist, callVars,
                 storeVars>>

\* thread::sleep(restore_delay_ms) (line 82).
Settle ==
  /\ pc = "settle"
  /\ settleCount' = settleCount + 1
  /\ pc' = "window"
  /\ UNCHANGED <<layout, displays, running, ctrl, result, granted, refreshOk,
                 permChecks, refreshCalls, launchLog, pollCount, timedOut,
                 processed, winLog, applyCount, pauses, callVars, storeVars>>

\* ------------------------------------------------ DisplayManager, 66-105
\* get_display_by_uuid(uuid): the displays stored under the key (0 or 1).
get_display_by_uuid(uuid) == {d \in displays : d.uuid = uuid}

\* get_main_display(): the displays with is_main set; find() yields one of
\* them, or None when the set is empty.
get_main_display == {d \in displays : d.is_main}

\* screen_to_display_coords(x, y): (uuid, local_x, local_y) for a display
\* whose frame contains the point; the set is empty when none does (None).
screen_to_display_coords(x, y) ==
  { <<d.uuid, x - d.x, y - d.y>> :
      d \in { e \in displays : /\ x >= e.x
                               /\ x < e.x + e.width
                               /\ y >= e.y
                               /\ y < e.y + e.height } }

\* display_to_screen_coords(uuid, x, y): the display's origin added to the
\* display-local point; the set is empty when the uuid is not stored (None).
display_to_screen_coords(uuid, x, y) ==
  { <<d.x + x, d.y + y>> : d \in get_display_by_uuid(uuid) }

\* ------------------------------------------------- restore_window, 117-139
\* The display restore_window settles on: the window's own display, else
\* the main display; empty when there is neither (the ? of line 124).
TargetDisplays(w) ==
  IF get_display_by_uuid(w.display_uuid) # {}
  THEN get_display_by_uuid(w.display_uuid)
  ELSE get_main_display

\* (display_uuid, new_x, new_y) of lines 129-135, with the unwrap_or_else
\* fallback to the captured coordinates.
ConvertedCoords(w) ==
  IF screen_to_display_coords(w.x, w.y) # {}
  THEN screen_to_display_coords(w.x, w.y)
  ELSE { <<w.display_uuid, w.x, w.y>> }

\* restore_layout line 88-89 enters restore_window for the next window;
\* restore_window resolves the display and the coordinates (117-139) and
\* initialises the retry loop (142-145).
BeginWindow ==
  /\ pc = "window"
  /\ idx <= Len(layout)
  /\ processed' = Append(processed, idx)
  /\ winLog' = <<>>
  /\ attempt' = 1
  /\ last_error' = NoError
  /\ LET w == layout[idx] IN
     IF TargetDisplays(w) = {}
     THEN /\ rw_result' = "NoDisplaysAvailable"
          /\ pc' = "record"
          /\ UNCHANGED target
     ELSE /\ \E c \in ConvertedCoords(w) : target' = <<c[2], c[3]>>
          /\ rw_result' = NoError
          /\ pc' = "attempt"
  /\ UNCHANGED <<layout, displays, running, li, launched_apps, wi, elapsed,
                 idx, success_count, failed_windows, result, granted,
                 refreshOk, permChecks, refreshCalls, launchLog, pollCount,
                 timedOut, settleCount, applyCount, pauses, callVars,
                 storeVars>>

\* ------------------------------------------------- restore_window, 141-162
\* let max_retries = 3 (line 142).
max_retries == 3

\* Variant without the return of line 149: a success is retried as well.
AfterAttempt_NoReturnOnOk(r, n) ==
  IF n < max_retries THEN "backoff" ELSE "record"

\* What follows one try_restore_window_position call in the retry loop:
\* return Ok (149), sleep and go round again (154-156), or leave the loop
\* with the last error (161).
AfterAttempt(r, n) ==
  IF r = "OK" THEN "record"
  ELSE IF n < max_retries THEN "backoff"
  ELSE "record"

\* The settings the AppleScript of try_restore_window_position makes to the
\* window it addresses, in order (lines 169-178): "set position of first
\* window" and nothing else.
ScriptSettings == <<"position">>

\* The settings one try_restore_window_position call has made when it
\* returns r: those of the script when it answered OK (the try block ran to
\* its end), none when the set statement raised or osascript did not run.
SettingsOf(r) == IF r = "OK" THEN ScriptSettings ELSE <<>>

\* The visibility call chosen for a window (find_and_restore_window,
\* 227-233): minimize, else hide, else show.
Visibility(w) ==
  IF w.is_minimized THEN "minimize"
  ELSE IF w.is_hidden THEN "hide"
  ELSE "show"

\* One try_restore_window_position call (166-199) and the match on its
\* result (146-158).
Attempt ==
  /\ pc = "attempt"
  /\ \E r \in {"OK"} \cup ApplyErrors :
       /\ winLog' = Append(winLog, r)
       /\ pc' = AfterAttempt(r, attempt)
       /\ last_error' = IF r = "OK" THEN last_error ELSE r
       /\ rw_result' = IF r = "OK" THEN "Ok"
                       ELSE IF AfterAttempt(r, attempt) = "record" THEN r
                       ELSE rw_result
  /\ applyCount' = applyCount + 1
  /\ UNCHANGED <<layout, displays, running, li, launched_apps, wi, elapsed,
                 idx, target, attempt, success_count, failed_windows, result,
                 refreshOk, granted, permChecks, refreshCalls, launchLog,
                 pollCount, timedOut, settleCount, processed, pauses,
                 callVars, storeVars>>

\* thread::sleep(500 ms) between two attempts (line 155) and the step of
\* the for loop to the next attempt.
Backoff ==
  /\ pc = "backoff"
  /\ winLog' = Append(winLog, "sleep")
  /\ attempt' = attempt + 1
  /\ pc' = "attempt"
  /\ UNCHANGED <<layout, displays, running, li, launched_apps, wi, elapsed,
                 idx, target, last_error, rw_result, success_count,
                 failed_windows, result, refreshOk, granted, permChecks,
                 refreshCalls, launchLog, pollCount, timedOut, settleCount,
                 processed, applyCount, pauses, callVars, storeVars>>

\* ------------------------------------------------- restore_layout, 89-102
\* Variant that leaves the apply loop at the first failed window.
NextWindow_BreakOnFailure(i, ok) ==
  IF ok THEN i + 1 ELSE Len(layout) + 1

\* The index of the window the apply loop turns to after window i.
NextWindow(i, ok) == i + 1

\* The match on restore_window's result (89-98) and the 200 ms pause (101).
\* winLog is kept for the window in hand only.
RecordOutcome ==
  /\ pc = "record"
  /\ IF rw_result = "Ok"
     THEN /\ success_count' = success_count + 1
          /\ UNCHANGED failed_windows
     ELSE /\ failed_windows' = Append(failed_windows, layout[idx])
          /\ UNCHANGED success_count
  /\ pauses' = pauses + 1
  /\ idx' = NextWindow(idx, rw_result = "Ok")
  /\ pc' = "window"
  \* the locals of restore_window are gone
  /\ target' = <<0, 0>>
  /\ attempt' = 1
  /\ last_error' = NoError
  /\ rw_result' = NoError
  /\ winLog' = <<>>
  /\ UNCHANGED <<layout, displays, running, li, launched_apps, wi, elapsed,
                 result, granted, refreshOk, permChecks, refreshCalls,
                 launchLog, pollCount, timedOut, settleCount, processed,
                 applyCount, callVars, storeVars>>

\* The apply loop is over: the log lines 104-109 and Ok(()) (line 111).
Return ==
  /\ pc = "window"
  /\ idx > Len(layout)
  /\ pc' = "returned"
  /\ result' = Ok
  /\ UNCHANGED <<layout, displays, running, ctrl, hist, callVars, storeVars>>

\* ------------------------------------------------------- lib.rs, 68-72
\* Every application of the layout was found running, and no
\* try_restore_window_position call of the returned call failed.
AllRunningAllApplied ==
  /\ pc = "returned"
  /\ granted
  /\ refreshOk
  /\ launchLog = <<>>
  /\ timedOut = {}
  /\ applyCount = success_count

\* The returned call counted every window of the layout as restored.
AllRestored ==
  /\ result = Ok
  /\ success_count = Len(layout)
  /\ failed_windows = <<>>

\* The caller restores the same layout once more with the same
\* WindowRestorer: the displays and the processes are as the previous call
\* left them, the locals start afresh.
CallAgain ==
  /\ pc = "returned"
  /\ calls < MaxCalls
  /\ calls' = calls + 1
  /\ prev' = [scenario |-> AllRunningAllApplied, allRestored |-> AllRestored]
  /\ pc' = "check_permission"
  /\ li' = 1
  /\ launched_apps' = <<>>
  /\ wi' = 1
  /\ elapsed' = 0
  /\ idx' = 1
  /\ target' = <<0, 0>>
  /\ attempt' = 1
  /\ last_error' = NoError
  /\ rw_result' = NoError
  /\ success_count' = 0
  /\ failed_windows' = <<>>
  /\ result' = NotReturned
  /\ granted' = FALSE
  /\ refreshOk' = FALSE
  /\ permChecks' = 0
  /\ refreshCalls' = 0
  /\ launchLog' = <<>>
  /\ pollCount' = 0
  /\ timedOut' = {}
  /\ settleCount' = 0
  /\ processed' = <<>>
  /\ winLog' = <<>>
  /\ applyCount' = 0
  /\ pauses' = 0
  /\ UNCHANGED <<layout, displays, running, ffiVars, storeVars>>

Next ==
  \/ CheckPermission
  \/ RefreshDisplays
  \/ LaunchStep
  \/ LaunchDone
  \/ WaitPoll
  \/ WaitTimeout
  \/ WaitDone
  \/ Settle
  \/ BeginWindow
  \/ Attempt
  \/ Backoff
  \/ RecordOutcome
  \/ Return

Spec == Init /\ [][Next]_vars

\* The calls return (the adapters' calls return, the sleeps end), so a step
\* that can be taken is taken.
FairSpec == Init /\ [][Next]_vars /\ WF_vars(Next)

NextTwice ==
  \/ Next
  \/ CallAgain

\* Restore calls made one after the other.
SpecTwice == Init /\ [][NextTwice]_vars

\* =========================================== LayoutManager operations
restoreVars == <<layout, pc, displays, running, ctrl, result, hist, callVars>>

\* The restorer is not called while the LayoutManager is exercised.
RestorerIdle ==
  /\ layout = <<>>
  /\ displays = {}
  /\ running = {}
  /\ CallStart
  /\ calls = 1
  /\ prev = NoPrevious
  /\ FfiStart

\* The files of the layouts directory with file f holding text.
WithFile(f, text) ==
  [g \in DOMAIN files \cup {f} |-> IF g = f THEN text ELSE files[g]]

\* The files of the layouts directory without file f.
WithoutFile(f) == [g \in DOMAIN files \ {f} |-> files[g]]

\* The call of caller p returns val.
Finish(p, kind, name, val) ==
  /\ op' = [op EXCEPT ![p] = Idle]
  /\ ret' = [ret EXCEPT ![p] = Returns(kind, name, val)]

\* windows.to_vec() with the order of the windows turned round.
to_vec_reversed(ws) == [i \in 1..Len(ws) |-> ws[Len(ws) + 1 - i]]

\* windows.to_vec() (line 119).
to_vec(ws) == ws

\* save_layout without the check of line 123.
SaveValidation_Skipped(l) == "Ok"

\* self.validate_layout(&layout)? in save_layout (line 123).
SaveValidation(l) == validate_layout(l)

\* load_layout without the check of line 142.
LoadValidation_Skipped(l) == "Ok"

\* self.validate_layout(&layout)? in load_layout (line 142).
LoadValidation(l) == validate_layout(l)

\* save_layout, line 100: the name is validated before anything else.
SaveCall(p, n, ws) ==
  /\ op[p].kind = "idle"
  /\ IF validate_layout_name(n) # "Ok"
     THEN Finish(p, "save", n, StoreErr(validate_layout_name(n)))
     ELSE /\ op' = [op EXCEPT ![p] = [Idle EXCEPT !.kind = "save",
                                                  !.step = "read",
                                                  !.name = n,
                                                  !.windows = ws]]
          /\ ret' = [ret EXCEPT ![p] = NoReturn]
  /\ wrote' = [wrote EXCEPT ![p] =
                 [before |-> IF saved[n].set
                             THEN [set |-> TRUE,
                                   at |-> Parse(files[FileOf(n)]).layout.created_at,
                                   updated |->
                                     Parse(files[FileOf(n)]).layout.updated_at,
                                   found |-> TRUE]
                             ELSE [set |-> FALSE, at |-> 0, updated |-> 0,
                                   found |-> FileOf(n) \in DOMAIN files],
                  layout |-> NoLayout]]
  /\ UNCHANGED <<files, clock, saved, firstCreated, tampered, restoreVars>>

\* Variant that takes created_at from whatever from_str yields, also when
\* the text is no record.
ExistingCreatedAt_Forced(parsed, now) == parsed.layout.created_at

\* save_layout, lines 107-109: created_at of the existing record when its
\* text parses, the current time when it does not.
ExistingCreatedAt(parsed, now) ==
  IF parsed.ok THEN parsed.layout.created_at ELSE now

\* save_layout, lines 105-113: created_at of the existing record if the
\* file exists, can be read and parses; the current time otherwise.
SaveRead(p) ==
  /\ op[p].kind = "save"
  /\ op[p].step = "read"
  /\ \E readable \in BOOLEAN :
       LET f == FileOf(op[p].name)
           created == IF f \in DOMAIN files /\ readable
                      THEN ExistingCreatedAt(Parse(files[f]), clock)
                      ELSE clock
       IN op' = [op EXCEPT ![p].created_at = created, ![p].step = "build"]
  /\ UNCHANGED <<files, clock, ret, saved, firstCreated, tampered, wrote, restoreVars>>

\* save_layout, lines 115-125: the record is assembled with updated_at
\* read from the clock, validated and serialized.
SaveBuild(p) ==
  /\ op[p].kind = "save"
  /\ op[p].step = "build"
  /\ LET l == [layout_name |-> op[p].name,
               created_at |-> op[p].created_at,
               updated_at |-> clock,
               windows |-> to_vec(op[p].windows)]
     IN IF SaveValidation(l) # "Ok"
        THEN Finish(p, "save", op[p].name, StoreErr(SaveValidation(l)))
        ELSE /\ op' = [op EXCEPT ![p].updated_at = clock,
                                 ![p].buf = Serialize(l),
                                 ![p].step = "open"]
             /\ UNCHANGED ret
  /\ wrote' = [wrote EXCEPT ![p].layout =
                 [layout_name |-> op[p].name,
                  created_at |-> op[p].created_at,
                  updated_at |-> clock,
                  windows |-> to_vec(op[p].windows)]]
  /\ UNCHANGED <<files, clock, saved, firstCreated, tampered, restoreVars>>

\* fs::write (line 126), first half: the file is created or truncated,
\* unless the open fails.
SaveOpen(p) ==
  /\ op[p].kind = "save"
  /\ op[p].step = "open"
  /\ \E opened \in BOOLEAN :
       IF opened
       THEN /\ files' = WithFile(FileOf(op[p].name), <<>>)
            /\ op' = [op EXCEPT ![p].off = 0, ![p].step = "write"]
            /\ saved' = [saved EXCEPT ![op[p].name] = NotSaved]
            /\ UNCHANGED ret
       ELSE /\ Finish(p, "save", op[p].name, StoreErr("Io"))
            /\ UNCHANGED <<files, saved>>
  /\ UNCHANGED <<clock, firstCreated, tampered, wrote, restoreVars>>

\* The sizes of the next piece a write may put out: all that is left, or
\* the head of the record alone.
ChunkSizes(p) ==
  {Len(op[p].buf) - op[p].off}
    \cup (IF op[p].off = 0 THEN {HeaderLen} ELSE {})

\* The text of a file after piece is written at offset off.
WriteAt(text, off, piece) ==
  [i \in 1..(IF Len(text) > off + Len(piece) THEN Len(text)
                                             ELSE off + Len(piece)) |->
     IF i > off /\ i <= off + Len(piece) THEN piece[i - off]
     ELSE IF i <= Len(text) THEN text[i]
     ELSE Token("hole", 0)]

\* fs::write (line 126), second half: the next piece of the text goes to
\* the file at the writer's offset; after the last piece save_layout
\* returns Ok.
SaveWrite(p) ==
  /\ op[p].kind = "save"
  /\ op[p].step = "write"
  /\ \E k \in ChunkSizes(p) :
       LET f == FileOf(op[p].name)
           n == op[p].name
           piece == SubSeq(op[p].buf, op[p].off + 1, op[p].off + k)
           old == IF f \in DOMAIN files THEN files[f] ELSE <<>>
       IN /\ files' = WithFile(f, WriteAt(old, op[p].off, piece))
          /\ IF op[p].off + k = Len(op[p].buf)
             THEN /\ Finish(p, "save", n, StoreOk(NoLayout))
                  /\ saved' = [saved EXCEPT ![n] =
                                 [set |-> TRUE, windows |-> op[p].windows]]
                  /\ firstCreated' =
                       [firstCreated EXCEPT ![n] =
                          IF firstCreated[n].set THEN firstCreated[n]
                          ELSE [set |-> TRUE, at |-> op[p].created_at]]
             ELSE /\ op' = [op EXCEPT ![p].off = op[p].off + k]
                  /\ UNCHANGED <<ret, saved, firstCreated>>
  /\ UNCHANGED <<clock, tampered, wrote, restoreVars>>

\* fs::write (line 126) fails before the text is complete: save_layout
\* returns the error and the file keeps what was written so far.
SaveWriteFail(p) ==
  /\ op[p].kind = "save"
  /\ op[p].step = "write"
  /\ Finish(p, "save", op[p].name, StoreErr("Io"))
  /\ UNCHANGED <<files, clock, saved, firstCreated, tampered, wrote, restoreVars>>

\* load_layout (134-144).
LoadResult(n, readable) ==
  IF validate_layout_name(n) # "Ok" THEN StoreErr(validate_layout_name(n))
  ELSE IF FileOf(n) \notin DOMAIN files THEN StoreErr("IoNotFound")
  ELSE IF ~readable THEN StoreErr("Io")
  ELSE IF ~Parse(files[FileOf(n)]).ok THEN StoreErr("Json")
  ELSE IF LoadValidation(Parse(files[FileOf(n)]).layout) # "Ok"
       THEN StoreErr(LoadValidation(Parse(files[FileOf(n)]).layout))
  ELSE StoreOk(Parse(files[FileOf(n)]).layout)

Load(p, n) ==
  /\ op[p].kind = "idle"
  /\ \E readable \in BOOLEAN : Finish(p, "load", n, LoadResult(n, readable))
  /\ wrote' = [wrote EXCEPT ![p] = NoWrote]
  /\ UNCHANGED <<files, clock, saved, firstCreated, tampered, restoreVars>>

\* fs::remove_file of a file that is not there, were it to pass in silence.
RemoveAbsent_Ignored == StoreOk(NoLayout)

\* fs::remove_file of a file that is not there (line 176): an io::Error of
\* kind NotFound.
RemoveAbsent == StoreErr("IoNotFound")

\* delete_layout (170-179).
Delete(p, n) ==
  /\ op[p].kind = "idle"
  /\ \E removable \in BOOLEAN :
       IF validate_layout_name(n) # "Ok"
       THEN /\ Finish(p, "delete", n, StoreErr(validate_layout_name(n)))
            /\ UNCHANGED <<files, saved, firstCreated, tampered>>
       ELSE IF FileOf(n) \notin DOMAIN files
       THEN /\ Finish(p, "delete", n, RemoveAbsent)
            /\ UNCHANGED <<files, saved, firstCreated, tampered>>
       ELSE IF ~removable
       THEN /\ Finish(p, "delete", n, StoreErr("Io"))
            /\ UNCHANGED <<files, saved, firstCreated, tampered>>
       ELSE /\ Finish(p, "delete", n, StoreOk(NoLayout))
            /\ files' = WithoutFile(FileOf(n))
            /\ saved' = [saved EXCEPT ![n] = NotSaved]
            /\ firstCreated' = [firstCreated EXCEPT ![n] = NoneCreated]
            /\ tampered' = tampered \ {n}
  /\ wrote' = [wrote EXCEPT ![p] = NoWrote]
  /\ UNCHANGED <<clock, restoreVars>>

\* Time passes: Utc::now() reads later.
Tick ==
  /\ clock < MaxClock
  /\ clock' = clock + 1
  /\ UNCHANGED <<files, op, ret, saved, firstCreated, tampered, wrote, restoreVars>>

\* ------------------------------------------------- records edited by hand
\* The invalid windows that a JSON text can hold (it has no non-finite
\* numbers).
JsonInvalidWindows ==
  { w \in InvalidWindows :
      \A v \in {w.x, w.y, w.width, w.height} : is_finite(v) }

HandLayout(name, ws) ==
  [layout_name |-> name, created_at |-> 0, updated_at |-> 0, windows |-> ws]

\* A record whose one window has a level that WindowLevel does not name.
UnknownLevelText ==
  [Serialize(HandLayout(<<"a">>, <<EditorWindow>>))
     EXCEPT ![HeaderLen + 1].v.window_level = "Desktop"]

\* Texts put in a layout file with an editor: records that break one
\* validation rule, texts that are no record, and a record that is in order.
TamperedTexts ==
  { Serialize(HandLayout(<<"a", "/", "b">>, <<EditorWindow>>)),
    Serialize(HandLayout(<<" ">>, <<>>)),
    Serialize(HandLayout(<<"a">>, <<TermWindow>>)),
    UnknownLevelText,
    <<>> }
  \cup { Serialize(HandLayout(<<"a">>, <<EditorWindow, b>>)) :
           b \in JsonInvalidWindows }

\* Somebody edits the file of a layout while no call is in progress.
HandEdit(n, text) ==
  /\ \A p \in Procs : op[p].kind = "idle"
  /\ files' = WithFile(FileOf(n), text)
  /\ saved' = [saved EXCEPT ![n] = NotSaved]
  /\ tampered' = tampered \cup {n}
  /\ UNCHANGED <<clock, op, ret, firstCreated, wrote, restoreVars>>

\* ---------------------------------------------------------- one caller
StoreInit == RestorerIdle /\ StoreStart

\* The arguments of the saves: every list under a valid name, one list
\* under an invalid name.
SaveArgs(names, lists) ==
  { args \in names \X lists :
      args[1] \in ValidNames \/ args[2] = <<EditorWindow>> }

\* One step of a single caller that draws its names, window lists and
\* hand-edited texts from the given sets.
StoreStep(names, lists, texts) ==
  \/ \E args \in SaveArgs(names, lists) : SaveCall(1, args[1], args[2])
  \/ SaveRead(1)
  \/ SaveBuild(1)
  \/ SaveOpen(1)
  \/ SaveWrite(1)
  \/ SaveWriteFail(1)
  \/ \E n \in names : Load(1, n)
  \/ \E n \in names : Delete(1, n)
  \/ Tick
  \/ \E n \in names \cap ValidNames, text \in texts : HandEdit(n, text)

\* The names of the calls that exercise the records: one valid name, and
\* one invalid name of each kind.
StoreNames == { <<"a">>, <<>>, <<"a", "/", "b">> }

StoreNext == StoreStep(StoreNames, SaveInputs, TamperedTexts)

StoreSpec == StoreInit /\ [][StoreNext]_vars

\* The calls that exercise the names: every invalid name and a valid one
\* with a blank inside, with one window list and one hand-edited text.
NameNames == InvalidNames \cup { <<"b", " ", "b">> }

NameNext == StoreStep(NameNames, {<<EditorWindow>>}, {<<>>})

NameSpec == StoreInit /\ [][NameNext]_vars

\* --------------------------------------------------------- two callers
\* The window lists of the concurrent saves.
ConcLists == { <<EditorWindow>>, <<TermWindow>> }

\* Two callers save under one name, each step of one interleaved with the
\* steps of the other.
ConcNext ==
  \/ \E p \in Procs, ws \in ConcLists : SaveCall(p, <<"a">>, ws)
  \/ \E p \in Procs : SaveRead(p)
  \/ \E p \in Procs : SaveBuild(p)
  \/ \E p \in Procs : SaveOpen(p)
  \/ \E p \in Procs : SaveWrite(p)
  \/ \E p \in Procs : SaveWriteFail(p)
  \/ Tick

ConcSpec == StoreInit /\ [][ConcNext]_vars

\* ================================================================ ffi.rs
\* FFI error codes (lines 28-35).
ERROR_SUCCESS == 0
ERROR_PERMISSION_DENIED == 1
ERROR_APP_NOT_FOUND == 2
ERROR_WINDOW_NOT_FOUND == 3
ERROR_DISPLAY_NOT_FOUND == 4
ERROR_FILE_IO == 5
ERROR_JSON == 6
ERROR_UNKNOWN == 99

\* The Rust type of the value inside the anyhow::Error that a LayoutManager
\* call returns: `?` wraps the io::Error of fs and the serde_json::Error of
\* from_str as they are, and anyhow!(...) makes a message. No call builds a
\* WindowRestoreError.
ErrorType(e) ==
  CASE e \in {"IoNotFound", "Io"} -> "io::Error"
    [] e = "Json" -> "serde_json::Error"
    [] OTHER -> "message"

\* The code of a WindowRestoreError variant (lines 45-52).
VariantCode(variant) ==
  CASE variant = "PermissionDenied" -> ERROR_PERMISSION_DENIED
    [] variant = "AppNotFound" -> ERROR_APP_NOT_FOUND
    [] variant = "WindowNotFound" -> ERROR_WINDOW_NOT_FOUND
    [] variant = "DisplayNotFound" -> ERROR_DISPLAY_NOT_FOUND
    [] variant = "FileIOError" -> ERROR_FILE_IO
    [] variant = "JsonError" -> ERROR_JSON

\* result_to_error_code (39-58): the code of a variant when the error
\* downcasts to WindowRestoreError, ERROR_UNKNOWN when it does not.
result_to_error_code(val) ==
  IF val.tag = "Ok" THEN ERROR_SUCCESS
  ELSE IF ErrorType(val.err) = "WindowRestoreError" THEN VariantCode(val.err)
  ELSE ERROR_UNKNOWN

\* A second caller loads while the first saves, deletes, loads and edits.
CodeTexts ==
  { <<>>,
    Serialize(HandLayout(<<"a">>, <<[EditorWindow EXCEPT !.title = <<>>]>>)) }

CodeNext ==
  \/ StoreStep({<<"a">>}, {<<EditorWindow>>}, CodeTexts)
  \/ Load(2, <<"a">>)

CodeSpec == StoreInit /\ [][CodeNext]_vars

\* ========================================================= list_layouts
\* The byte of a character of the names in use.
CharCode(c) ==
  CASE c = " " -> 32
    [] c = "B" -> 66
    [] c = "a" -> 97
    [] c = "b" -> 98

\* Ord of String: a < b, byte by byte.
RECURSIVE StrLess(_, _)
StrLess(a, b) ==
  IF b = <<>> THEN FALSE
  ELSE IF a = <<>> THEN TRUE
  ELSE IF CharCode(Head(a)) < CharCode(Head(b)) THEN TRUE
  ELSE IF CharCode(Head(a)) > CharCode(Head(b)) THEN FALSE
  ELSE StrLess(Tail(a), Tail(b))

\* A sorted sequence with x put in its place.
RECURSIVE Insert(_, _)
Insert(sorted, x) ==
  IF sorted = <<>> THEN <<x>>
  ELSE IF StrLess(x, Head(sorted)) THEN <<x>> \o sorted
  ELSE <<Head(sorted)>> \o Insert(Tail(sorted), x)

RECURSIVE SortNames(_)
SortNames(seq) ==
  IF seq = <<>> THEN <<>>
  ELSE Insert(SortNames(SubSeq(seq, 1, Len(seq) - 1)), seq[Len(seq)])

\* list_layouts without line 164.
sort_skipped(seq) == seq

\* layouts.sort() (line 164).
sort(seq) == SortNames(seq)

\* path.extension() and path.file_stem() of a file of the directory.
extension(f) == IF f = <<>> THEN "" ELSE f[Len(f)]
file_stem(f) == SubSeq(f, 1, Len(f) - 1)

\* The orders in which fs::read_dir may yield the entries of the directory.
DirOrders ==
  { order \in [1..Cardinality(DOMAIN files) -> DOMAIN files] :
      \A i, j \in DOMAIN order : i # j => order[i] # order[j] }

\* The loop of list_layouts (152-161) over the entries from i on.
RECURSIVE Collect(_, _)
Collect(order, i) ==
  IF i > Len(order) THEN <<>>
  ELSE IF extension(order[i]) = ".json"
       THEN <<file_stem(order[i])>> \o Collect(order, i + 1)
       ELSE Collect(order, i + 1)

\* list_layouts (148-166).
List(p) ==
  /\ op[p].kind = "idle"
  /\ \E readable \in BOOLEAN, order \in DirOrders :
       Finish(p, "list", <<>>,
              IF readable THEN ListOk(sort(Collect(order, 1)))
                          ELSE StoreErr("Io"))
  /\ wrote' = [wrote EXCEPT ![p] = NoWrote]
  /\ UNCHANGED <<files, clock, saved, firstCreated, tampered, restoreVars>>

\* layout_exists (183-186): whether the file of the name is there.
layout_exists(n) == FileOf(n) \in DOMAIN files

\* The names of the calls that exercise the list: one a prefix of another,
\* one in upper case.
ListNames == { <<"a">>, <<"a", "b">>, <<"B">> }

\* A single caller saves, deletes, loads and lists.
ListNext ==
  \/ \E n \in ListNames : SaveCall(1, n, <<>>)
  \/ SaveRead(1)
  \/ SaveBuild(1)
  \/ SaveOpen(1)
  \/ SaveWrite(1)
  \/ SaveWriteFail(1)
  \/ \E n \in ListNames : Load(1, n)
  \/ \E n \in ListNames : Delete(1, n)
  \/ List(1)

ListSpec == StoreInit /\ [][ListNext]_vars

\* ============================================== extern "C" calls (ffi.rs)
\* What a caller passes for name: a null pointer, bytes that are no UTF-8,
\* or a string.
FfiArgs(names) ==
  { [kind |-> "null", s |-> <<>>], [kind |-> "not_utf8", s |-> <<>>] }
    \cup { [kind |-> "str", s |-> n] : n \in names }

\* Everything but the thread's own call, the message and ret.
ffiFrame ==
  <<layout, pc, displays, running, ctrl, result, hist, calls, prev, files,
    clock, op, saved, firstCreated, tampered, wrote>>

\* The first lines of save_current_layout and delete_layout (66-73,
\* 163-170): ERROR_UNKNOWN is returned for a null pointer or a name that is
\* no UTF-8, before clear_last_error_message(); otherwise the message is
\* cleared and the body begins.
FfiEnter(p, fn, arg) ==
  /\ op[p].kind = "idle"
  /\ ffi[p].stage \in {"none", "returned"}
  /\ IF arg.kind # "str"
     THEN /\ ffi' = [ffi EXCEPT ![p] = [NoFfi EXCEPT !.fn = fn,
                                                     !.stage = "returned",
                                                     !.code = ERROR_UNKNOWN,
                                                     !.err = arg.kind]]
          /\ UNCHANGED LAST_ERROR_MESSAGE
     ELSE /\ ffi' = [ffi EXCEPT ![p] = [NoFfi EXCEPT !.fn = fn,
                                                     !.stage = "body",
                                                     !.name = arg.s]]
          /\ LAST_ERROR_MESSAGE' = "None"
  /\ ret' = [ret EXCEPT ![p] = NoReturn]
  /\ UNCHANGED ffiFrame

\* LayoutManager::new()? or WindowScanner::new()? fails inside the closure
\* (lines 78-79, 174): the directory cannot be made.
ManagerNewFails(p) ==
  /\ ffi[p].stage = "body"
  /\ op[p].kind = "idle"
  /\ ret[p] = NoReturn
  /\ ret' = [ret EXCEPT ![p] = Returns(ffi[p].fn, ffi[p].name, StoreErr("Io"))]
  /\ UNCHANGED <<ffiVars, ffiFrame>>

\* manager.delete_layout(name_str) (line 175).
FfiDelete(p) ==
  /\ ffi[p].stage = "body"
  /\ ffi[p].fn = "delete_layout"
  /\ ret[p] = NoReturn
  /\ Delete(p, ffi[p].name)

\* scanner.scan_windows() (lines 80-86): the windows on screen, or no
\* window when the scan fails.
FfiScan(p, scans) ==
  /\ ffi[p].stage = "body"
  /\ ffi[p].fn = "save_current_layout"
  /\ op[p].kind = "idle"
  /\ ret[p] = NoReturn
  /\ \E ws \in scans, ok \in BOOLEAN :
       ffi' = [ffi EXCEPT ![p].stage = "scanned",
                          ![p].scan = [ok |-> ok,
                                       windows |-> IF ok THEN ws ELSE <<>>]]
  /\ UNCHANGED <<LAST_ERROR_MESSAGE, ret, ffiFrame>>

\* v >= 0.0 on f64: false for NaN.
GeZero(v) == v # NaN /\ v >= 0

\* Variant that asks for a width and a height above zero.
frame_ok_positive(w) ==
  /\ is_finite(w.width)
  /\ is_finite(w.height)
  /\ GeZero(w.width) /\ w.width # 0
  /\ GeZero(w.height) /\ w.height # 0
  /\ is_finite(w.x)
  /\ is_finite(w.y)

\* frame_ok of the filter closure (lines 92-97).
frame_ok(w) ==
  /\ is_finite(w.width)
  /\ is_finite(w.height)
  /\ GeZero(w.width)
  /\ GeZero(w.height)
  /\ is_finite(w.x)
  /\ is_finite(w.y)

\* The filter closure (lines 88-105): title_ok && app_ok && uuid_ok &&
\* frame_ok.
filter_keeps(w) ==
  /\ Trim(w.title) # <<>>
  /\ Trim(w.app_name) # <<>>
  /\ Trim(w.display_uuid) # <<>>
  /\ frame_ok(w)

\* windows.into_iter().filter(..).collect() (lines 87-106).
filtered(ws) == SelectSeq(ws, filter_keeps)

\* manager.save_layout(name_str, &filtered) (line 108) begins.
FfiFilterSave(p) ==
  /\ ffi[p].stage = "scanned"
  /\ ret[p] = NoReturn
  /\ SaveCall(p, ffi[p].name, filtered(ffi[p].scan.windows))

\* result_to_error_code(&result) (lines 112, 179) once the closure has its
\* result: the message of an error is stored, and the code is returned.
FfiReturn(p) ==
  /\ ffi[p].stage \in {"body", "scanned"}
  /\ op[p].kind = "idle"
  /\ ret[p] # NoReturn
  /\ LAST_ERROR_MESSAGE' =
       IF ret[p].val.tag = "Err" THEN ret[p].val.err ELSE LAST_ERROR_MESSAGE
  /\ ffi' = [ffi EXCEPT ![p].stage = "returned",
                        ![p].code = result_to_error_code(ret[p].val),
                        ![p].err = ret[p].val.err]
  /\ UNCHANGED <<ret, ffiFrame>>

\* get_last_error_message (232-240): the stored message, or the empty
\* string when there is none.
get_last_error_message ==
  IF LAST_ERROR_MESSAGE = "None" THEN "" ELSE LAST_ERROR_MESSAGE

\* Two threads: the first saves and deletes, the second deletes.
MsgScans == { <<>>, <<EditorWindow>> }
MsgNames == { <<"a">> }

MsgNext ==
  \/ \E fn \in {"save_current_layout", "delete_layout"},
        arg \in FfiArgs(MsgNames) : FfiEnter(1, fn, arg)
  \/ \E arg \in FfiArgs(MsgNames) : FfiEnter(2, "delete_layout", arg)
  \/ \E p \in Procs : ManagerNewFails(p)
  \/ \E p \in Procs : FfiDelete(p)
  \/ FfiScan(1, MsgScans)
  \/ FfiFilterSave(1)
  \/ SaveRead(1)
  \/ SaveBuild(1)
  \/ SaveOpen(1)
  \/ SaveWrite(1)
  \/ SaveWriteFail(1)
  \/ \E p \in Procs : FfiReturn(p)

MsgSpec == StoreInit /\ [][MsgNext]_vars

\* One thread saves what the scanner yields: valid windows, windows that
\* break one rule, and mixtures.
ScanLists ==
  { <<>>, <<EditorWindow>>, <<TermWindow, EditorWindow>> }
    \cup { <<EditorWindow, b>> : b \in InvalidWindows }
    \cup { <<[TermWindow EXCEPT !.title = <<" ">>], TermWindow>>,
           <<[EditorWindow EXCEPT !.width = 0 - 1],
             [TermWindow EXCEPT !.display_uuid = <<>>]>> }

ScanNames == { <<"a">>, <<"a", "/", "b">> }

ScanNext ==
  \/ \E arg \in FfiArgs(ScanNames) : FfiEnter(1, "save_current_layout", arg)
  \/ ManagerNewFails(1)
  \/ FfiScan(1, ScanLists)
  \/ FfiFilterSave(1)
  \/ SaveRead(1)
  \/ SaveBuild(1)
  \/ SaveOpen(1)
  \/ SaveWrite(1)
  \/ SaveWriteFail(1)
  \/ FfiReturn(1)

ScanSpec == StoreInit /\ [][ScanNext]_vars

\* ===================================================== properties

Returned == pc = "returned"

\* Indices of the windows of the layout that belong to application b.
WindowsOf(b) == {i \in 1..Len(layout) : layout[i].bundle_id = b}

\* The attempts (not the sleeps) among the entries of winLog.
AttemptPositions == {i \in 1..Len(winLog) : winLog[i] # "sleep"}

\* C1: restore returns Ok at the call level whatever the launch and apply
\* adapters do; a call-level error is returned only for a missing
\* permission or a failed topology refresh.
C1_OnlyTwoFatalErrors ==
  result.tag = "Err" => result.err \in {"PermissionRequired", "RefreshFailed"}

\* C2: when the permission check reports the permission missing, restore
\* returns an error at once: the check is made once, and no topology
\* refresh, launch, launch wait, settle delay or window apply is performed.
C2_PermissionMissingIsFatal ==
  (permChecks > 0 /\ ~granted) =>
     /\ Returned
     /\ result = Err("PermissionRequired")
     /\ permChecks = 1
     /\ refreshCalls = 0
     /\ launchLog = <<>>
     /\ pollCount = 0
     /\ settleCount = 0
     /\ processed = <<>>
     /\ applyCount = 0

C2_Witness ==
  /\ Returned
  /\ permChecks = 1
  /\ ~granted
  /\ result = Err("PermissionRequired")
  /\ Len(layout) = MaxWindows

\* C3: when the topology refresh fails, restore returns an error for the
\* whole call, and no application is launched and no window is applied.
C3_RefreshFailureIsFatal ==
  (refreshCalls > 0 /\ ~refreshOk) =>
     /\ Returned
     /\ result = Err("RefreshFailed")
     /\ refreshCalls = 1
     /\ launchLog = <<>>
     /\ pollCount = 0
     /\ processed = <<>>
     /\ applyCount = 0

C3_Witness ==
  /\ Returned
  /\ granted
  /\ refreshCalls = 1
  /\ ~refreshOk
  /\ result = Err("RefreshFailed")
  /\ Len(layout) = MaxWindows

\* C4: in the apply phase the windows are handed to restore_window once
\* each, in snapshot order; each processed window adds exactly one outcome
\* (a success count or an entry of failed_windows); a failed window does not
\* stop the loop: once the apply phase has started the call returns only
\* after every window has been processed.
C4_EveryWindowOnceInOrder ==
  /\ \A i \in 1..Len(processed) : processed[i] = i
  /\ Len(processed) <= Len(layout)
  /\ pc = "window" =>
       /\ Len(processed) = idx - 1
       /\ success_count + Len(failed_windows) = idx - 1
  /\ pc \in {"attempt", "backoff", "record"} =>
       /\ Len(processed) = idx
       /\ success_count + Len(failed_windows) = idx - 1
  /\ (Returned /\ settleCount > 0) =>
       /\ result = Ok
       /\ Len(processed) = Len(layout)
       /\ success_count + Len(failed_windows) = Len(layout)
       /\ pauses = Len(layout)

C4_Witness ==
  /\ Returned
  /\ result = Ok
  /\ Len(layout) = 2
  /\ layout[1] # layout[2]
  /\ processed = <<1, 2>>
  /\ failed_windows = <<layout[1]>>
  /\ success_count = 1

\* C5: a launch-wait timeout does not abort the call: the call still goes
\* through the settle delay and the apply phase for every window.
C5_TimeoutDoesNotAbort ==
  (Returned /\ timedOut # {}) =>
     /\ settleCount = 1
     /\ Len(processed) = Len(layout)

\* C6: when one application of the layout times out in the launch wait and
\* another one was launched and is running, the call yields a report: the
\* windows of the first are not restored, those of the others are.
C6_TimeoutScenarioReport ==
  (/\ Returned
   /\ timedOut # {}
   /\ \E b \in Range(launched_apps) \ timedOut : b \in running) =>
     /\ result = Ok
     /\ Range(failed_windows) =
          {layout[i] : i \in UNION {WindowsOf(b) : b \in timedOut}}
     /\ success_count =
          Cardinality({i \in 1..Len(layout) : layout[i].bundle_id \notin timedOut})

\* C7: a window whose display_uuid is not in the topology is not failed for
\* that alone: it goes through apply attempts and the apply result decides.
C7_MissingDisplayStillApplied ==
  (/\ pc = "record"
   /\ get_display_by_uuid(layout[idx].display_uuid) = {}) =>
     /\ AttemptPositions # {}
     /\ rw_result \in {"Ok"} \cup ApplyErrors

\* The per-window outcomes that the value returned at line 111 carries to
\* the caller: Ok(()) carries none.
ReturnedReport == <<>>

\* C8: when restore returns success the caller receives one outcome per
\* window of the layout, and a call in which some window was not restored
\* is not returned as a success that shows no failure.
C8_SuccessCarriesCompleteReport ==
  result.tag = "Ok" =>
     /\ Len(ReturnedReport) = Len(layout)
     /\ failed_windows # <<>> =>
          \E i \in 1..Len(ReturnedReport) : ReturnedReport[i] # "Restored"

\* C9: one window gets at most 3 apply attempts; a success is the last
\* attempt and makes the window's result Ok; a backoff sleep stands only
\* between two attempts, never after the last; after 3 failed attempts the
\* window's result is the error of the third.
C9_BoundedRetry ==
  /\ Cardinality(AttemptPositions) <= 3
  /\ \A i \in 1..Len(winLog) : (winLog[i] = "sleep") <=> (i % 2 = 0)
  /\ \A i \in 1..Len(winLog) :
       winLog[i] = "OK" => (i = Len(winLog) /\ pc = "record" /\ rw_result = "Ok")
  /\ (pc = "record" /\ winLog # <<>>) =>
       /\ winLog[Len(winLog)] # "sleep"
       /\ rw_result = "Ok" <=> winLog[Len(winLog)] = "OK"
       /\ rw_result # "Ok" =>
            /\ Cardinality(AttemptPositions) = 3
            /\ rw_result = winLog[Len(winLog)]
            /\ rw_result = last_error
  /\ pc = "backoff" => (winLog # <<>> /\ winLog[Len(winLog)] \in ApplyErrors)

C9_Witness ==
  /\ pc = "record"
  /\ winLog = <<"ExecFailed", "sleep", "StatusFailed", "sleep", "WindowNotFound">>
  /\ rw_result = "WindowNotFound"

\* C10: an attempt that fails because the window is not found is not
\* retried: it is the window's last attempt.
C10_NotFoundNotRetried ==
  \A i \in 1..Len(winLog) :
    winLog[i] = "WindowNotFound" => (i = Len(winLog) /\ pc = "record")

\* C11: in the launch phase a launch is requested only for identities that
\* are not running, at most once per distinct identity (also when several
\* windows share it), in the order of first appearance in the layout.
C11_LaunchOncePerIdentity ==
  /\ \A i, j \in 1..Len(launchLog) : i < j => launchLog[i] # launchLog[j]
  /\ \A i \in 1..Len(launchLog) :
       \E k \in 1..Len(layout) :
         /\ layout[k].bundle_id = launchLog[i]
         /\ \A j \in 1..(i - 1) :
              \E m \in 1..(k - 1) : layout[m].bundle_id = launchLog[j]

\* C12: every restore call terminates: each wait_for_app makes at most
\* MaxPolls polls, each window gets at most max_retries apply attempts,
\* and the call reaches its return.
C12_Terminates ==
  /\ [](pollCount <= MaxPolls * Len(launched_apps))
  /\ [](applyCount <= max_retries * Len(processed))
  /\ <>(pc = "returned")

C12_Witness ==
  /\ pc = "returned"
  /\ result = Ok
  /\ Len(layout) = MaxWindows
  /\ pollCount > 0
  /\ applyCount = max_retries * Len(layout)
  /\ Len(failed_windows) = Len(layout)

\* C13: restoring twice in a row, with every application running and every
\* apply succeeding both times, counts every window as restored both times.
C13_TwiceAllRestored ==
  (/\ calls = 2
   /\ prev.scenario
   /\ AllRunningAllApplied) =>
     /\ prev.allRestored
     /\ AllRestored

\* ------------------------------------------------ LayoutManager claims
\* The single caller is in no call.
CallerIdle == op[1].kind = "idle"

\* The last call of the single caller was of this kind and has returned.
Returned1(kind) == CallerIdle /\ ret[1].kind = kind

C15_CreatedAtPreserved ==
  \A n \in ValidNames :
    (saved[n].set /\ n \notin tampered) =>
      /\ FileOf(n) \in DOMAIN files
      /\ Parse(files[FileOf(n)]).ok
      /\ Parse(files[FileOf(n)]).layout.created_at = firstCreated[n].at

\* A name that the naming rule forbids: empty once trimmed, or holding one
\* of the nine characters / \ : * ? " < > |.
NameBreaksRule(n) ==
  \/ \A i \in 1..Len(n) : n[i] = " "
  \/ \E i \in 1..Len(n) :
       n[i] \in {"/", "\\", ":", "*", "?", "\"", "<", ">", "|"}

\* C16: a save, load or delete with a name that breaks the naming rule
\* returns a name-validation error in the step it is called in and leaves
\* the files as they were; no save gets past the check with such a name.
C16_InvalidNameRejected ==
  /\ [](op[1].kind = "save" => ~NameBreaksRule(op[1].name))
  /\ [][ ( /\ op[1].kind = "idle"
           /\ op'[1].kind = "idle"
           /\ ret'[1] # ret[1]
           /\ ret'[1].kind \in {"save", "load", "delete"}
           /\ NameBreaksRule(ret'[1].name) ) =>
           ( /\ ret'[1].val.tag = "Err"
             /\ ret'[1].val.err \in NameErrors
             /\ files' = files ) ]_vars

\* A delete with a name that holds | was rejected while a record is stored.
C16_Witness ==
  /\ Returned1("delete")
  /\ ret[1].name = <<"a", "|", "b">>
  /\ ret[1].val.err = "NameInvalidChars"
  /\ saved[<<"b", " ", "b">>].set

\* A window that a save must refuse: application name, title or display id
\* empty once trimmed, a frame field that is not finite, or a negative
\* width or height.
WindowBreaksRule(w) ==
  \/ \E str \in {w.app_name, w.title, w.display_uuid} :
       \A i \in 1..Len(str) : str[i] = " "
  \/ \E v \in {w.x, w.y, w.width, w.height} : v \in {NaN, PosInf, NegInf}
  \/ w.width < 0
  \/ w.height < 0

\* C17: a save with a valid name and a window that breaks a rule changes no
\* file in any of its steps, never gets to the write, and returns a
\* window-validation error.
C17_InvalidWindowRejected ==
  [][ ( /\ op[1].kind = "save"
        /\ \E i \in 1..Len(op[1].windows) : WindowBreaksRule(op[1].windows[i]) ) =>
        ( /\ files' = files
          /\ op'[1].step \notin {"open", "write"}
          /\ op'[1].kind = "idle" =>
               (ret'[1].val.tag = "Err" /\ ret'[1].val.err \in WindowErrors) ) ]_vars

\* A save of a window with an invalid size was refused while the record of
\* an earlier save is stored.
C17_Witness ==
  /\ Returned1("save")
  /\ ret[1].name = <<"a">>
  /\ ret[1].val.err = "InvalidSize"
  /\ saved[<<"a">>].set
  /\ saved[<<"a">>].windows = <<EditorWindow, TermWindow>>

\* C20: a layout that load returns has a name the naming rule allows and no
\* window that breaks a window rule.
C20_LoadedLayoutIsValid ==
  (Returned1("load") /\ ret[1].val.tag = "Ok") =>
    /\ ~NameBreaksRule(ret[1].val.value.layout_name)
    /\ \A i \in 1..Len(ret[1].val.value.windows) :
         ~WindowBreaksRule(ret[1].val.value.windows[i])

\* A load of a record that was edited by hand, still parses and holds a
\* window of negative height has failed with the validation error.
C20_Witness ==
  /\ Returned1("load")
  /\ ret[1].name = <<"a">>
  /\ <<"a">> \in tampered
  /\ FileOf(<<"a">>) \in DOMAIN files
  /\ Parse(files[FileOf(<<"a">>)]).ok
  /\ Len(Parse(files[FileOf(<<"a">>)]).layout.windows) = 2
  /\ Parse(files[FileOf(<<"a">>)]).layout.windows[2].height < 0
  /\ ret[1].val.tag = "Err"
  /\ ret[1].val.err = "InvalidSize"

\* C18: a load of a name whose file nobody edited by hand returns a
\* complete record if one was saved under the name, and reports the record
\* as absent if none was; it fails otherwise only if the file could not be
\* read. In particular it does so after a save whose write failed part-way.
C18_LoadNeverSeesHalfWritten ==
  \A n \in ValidNames :
    (Returned1("load") /\ ret[1].name = n /\ n \notin tampered) =>
      IF firstCreated[n].set
      THEN ret[1].val.tag = "Ok" \/ ret[1].val.err = "Io"
      ELSE ret[1].val.tag = "Err" /\ ret[1].val.err \in {"IoNotFound", "Io"}

\* C19: once two callers have both returned Ok from a save under the same
\* name, the file holds exactly the record that one of the two built; and
\* if both found a complete record when they were called, its created_at is
\* still that record's.
C19_LastWriterWins ==
  \A n \in ValidNames :
    ( /\ \A p \in Procs : /\ op[p].kind = "idle"
                          /\ ret[p].kind = "save"
                          /\ ret[p].name = n
                          /\ ret[p].val.tag = "Ok" ) =>
      /\ FileOf(n) \in DOMAIN files
      /\ Parse(files[FileOf(n)]).ok
      /\ \E p \in Procs : Parse(files[FileOf(n)]).layout = wrote[p].layout
      /\ (\A p \in Procs : wrote[p].before.set) =>
           Parse(files[FileOf(n)]).layout.created_at = wrote[1].before.at

\* C21: a load that found no file and a load that found a file it could not
\* parse or validate return errors of different kinds, and the FFI maps the
\* two to different error codes.
C21_AbsentAndMalformedDistinct ==
  \A p, q \in Procs :
    ( /\ ret[p].kind = "load"
      /\ ret[q].kind = "load"
      /\ ret[p].name \in ValidNames
      /\ ret[q].name \in ValidNames
      /\ ret[p].val.err = "IoNotFound"
      /\ ret[q].val.err \in {"Json"} \cup NameErrors \cup WindowErrors ) =>
      /\ ErrorType(ret[p].val.err) # ErrorType(ret[q].val.err)
      /\ result_to_error_code(ret[p].val) # result_to_error_code(ret[q].val)

\* ------------------------------------------------------ list and delete
\* The names of the files of the directory.
StoredNames == { file_stem(f) : f \in DOMAIN files }

\* C22: a delete of a name that has no file returns the not-found io::Error
\* and changes no file; a list that follows the successful delete of the
\* last file returns the empty sequence, unless the directory cannot be read.
C22_DeleteAbsentAndListEmpty ==
  [][ /\ ( /\ op[1].kind = "idle"
           /\ op'[1].kind = "idle"
           /\ ret'[1].kind = "delete"
           /\ ret'[1].name \in ValidNames
           /\ FileOf(ret'[1].name) \notin DOMAIN files ) =>
           ( /\ ret'[1].val.tag = "Err"
             /\ ret'[1].val.err = "IoNotFound"
             /\ files' = files )
      /\ ( /\ ret[1].kind = "delete"
           /\ ret[1].val.tag = "Ok"
           /\ DOMAIN files = {}
           /\ ret'[1].kind = "list" ) =>
           ( \/ ret'[1].val.tag = "Ok" /\ ret'[1].val.names = <<>>
             \/ ret'[1].val.tag = "Err" /\ ret'[1].val.err = "Io" ) ]_vars

\* A delete of a name without a file has failed while two other records
\* are stored.
C22_Witness ==
  /\ Returned1("delete")
  /\ ret[1].name = <<"a">>
  /\ ret[1].val.err = "IoNotFound"
  /\ saved[<<"B">>].set
  /\ saved[<<"a", "b">>].set

\* C23: a list that succeeds returns the names of the stored files, each
\* once, in strictly ascending byte order, so its value is fixed by the
\* files alone; with no file it returns the empty sequence; it fails only
\* when the directory cannot be read.
C23_ListSortedNoDuplicates ==
  Returned1("list") =>
    \/ /\ ret[1].val.tag = "Ok"
       /\ Range(ret[1].val.names) = StoredNames
       /\ \A i, j \in 1..Len(ret[1].val.names) :
            i < j => StrLess(ret[1].val.names[i], ret[1].val.names[j])
       /\ DOMAIN files = {} => ret[1].val.names = <<>>
    \/ /\ ret[1].val.tag = "Err"
       /\ ret[1].val.err = "Io"

\* A list has returned the three names in byte order.
C23_Witness ==
  /\ Returned1("list")
  /\ ret[1].val.tag = "Ok"
  /\ ret[1].val.names = << <<"B">>, <<"a">>, <<"a", "b">> >>

\* C24: a list that succeeds returns exactly the names that were saved
\* successfully and not deleted since, and a load of a name that is not
\* among them does not succeed.
C24_ListIsSavedNotDeleted ==
  /\ (Returned1("list") /\ ret[1].val.tag = "Ok") =>
       Range(ret[1].val.names) = { n \in ValidNames : firstCreated[n].set }
  /\ (Returned1("load") /\ ret[1].name \in ValidNames
        /\ ~firstCreated[ret[1].name].set) =>
       ret[1].val.tag = "Err"

\* ------------------------------------------------------- restore phases
\* The phase of a restore call that a position of the code belongs to.
Phase(position) ==
  CASE position = "check_permission" -> 1
    [] position = "refresh" -> 2
    [] position = "launch" -> 3
    [] position = "wait" -> 4
    [] position = "settle" -> 5
    [] position \in {"window", "attempt", "backoff", "record"} -> 6
    [] position = "returned" -> 7

\* C25: a restore call never steps back to an earlier phase; once a window
\* is taken up, the permission check and the refresh have run once, the
\* launch loop and the wait loop are over and the settle delay has been
\* slept once; and from then on no launch is requested, no launch is waited
\* for and no settle delay is slept.
C25_PhasesInOrder ==
  /\ [][Phase(pc') >= Phase(pc)]_vars
  /\ []( (processed # <<>> \/ applyCount > 0) =>
           /\ permChecks = 1
           /\ refreshCalls = 1
           /\ li > Len(layout)
           /\ wi > Len(launched_apps)
           /\ settleCount = 1 )
  /\ [][ processed # <<>> =>
           /\ launchLog' = launchLog
           /\ pollCount' = pollCount
           /\ settleCount' = settleCount
           /\ permChecks' = permChecks
           /\ refreshCalls' = refreshCalls ]_vars

\* A call that launched two applications, polled for them and applied both
\* windows has returned.
C25_Witness ==
  /\ pc = "returned"
  /\ result = Ok
  /\ Len(launchLog) = 2
  /\ pollCount >= 2
  /\ Len(processed) = 2
  /\ applyCount >= 2

\* C26: a call in which a launch request failed still returns Ok, and has
\* taken up every window of the layout that belongs to another application.
C26_LaunchFailureAbsorbed ==
  ( /\ pc = "returned"
    /\ Len(launchLog) > Len(launched_apps) ) =>
    /\ result = Ok
    /\ \A k \in 1..Len(layout) :
         layout[k].bundle_id # launchLog[Len(launchLog)] =>
           k \in Range(processed)

\* C27: a window that restore_window returns Ok for has had its position,
\* then its size, then exactly one visibility state set by the successful
\* apply: minimize when is_minimized, else hide when is_hidden, else show.
C27_RestoredMeansFullyApplied ==
  (/\ pc = "record"
   /\ rw_result = "Ok") =>
     SettingsOf(winLog[Len(winLog)]) =
       <<"position", "size", Visibility(layout[idx])>>

\* The window restore_window is working on has its target decided.
InWindow == pc \in {"attempt", "backoff", "record"}

\* C28, first half: when the topology can map the captured origin of the
\* window to an absolute position, that position is the target.
C28_TargetIsAbsolute ==
  InWindow =>
    LET w == layout[idx]
        absolute == display_to_screen_coords(w.display_uuid, w.x, w.y)
    IN  absolute # {} => target \in absolute

\* C28, second half: when it cannot, the captured x and y are the target and
\* the window is applied, not failed for the missing conversion.
C28_FallbackIsCaptured ==
  InWindow =>
    LET w == layout[idx]
        absolute == display_to_screen_coords(w.display_uuid, w.x, w.y)
    IN  absolute = {} =>
          /\ rw_result # "NoDisplaysAvailable"
          /\ target = <<w.x, w.y>>

\* C28: the target position is the captured origin converted to an absolute
\* position, or the captured x and y unmodified when no conversion is
\* possible, and in that case the window is still applied.
C28_TargetPosition ==
  /\ C28_TargetIsAbsolute
  /\ C28_FallbackIsCaptured

\* The save of caller 1 under name n has returned Ok and its record is the
\* one stored, untouched since.
SaveReturned(n) ==
  /\ op[1].kind = "idle"
  /\ ret[1].kind = "save"
  /\ ret[1].name = n
  /\ ret[1].val.tag = "Ok"
  /\ saved[n].set
  /\ n \notin tampered
  /\ FileOf(n) \in DOMAIN files
  /\ Parse(files[FileOf(n)]).ok

\* C29: a successful save stores the updated_at it read from the clock, the
\* stored created_at is not later than it, and when the save replaced the
\* record of an earlier successful save the stored updated_at is strictly
\* greater than the one that record held.
C29_UpdatedAtStrictlyAdvances ==
  \A n \in ValidNames :
    SaveReturned(n) =>
      LET l == Parse(files[FileOf(n)]).layout
      IN  /\ l.updated_at = wrote[1].layout.updated_at
          /\ l.created_at <= l.updated_at
          /\ wrote[1].before.set => l.updated_at > wrote[1].before.updated

\* C30: a successful save under a name that had no file when the save was
\* called stores a record with created_at = updated_at.
C30_FirstSaveSameInstant ==
  \A n \in ValidNames :
    (SaveReturned(n) /\ ~wrote[1].before.found) =>
      LET l == Parse(files[FileOf(n)]).layout
      IN  l.created_at = l.updated_at

\* The windows of layout l all carry an application name and an application
\* identity (bundle id) that are non-empty once trimmed.
IdentityNonEmpty(l) ==
  \A i \in 1..Len(l.windows) :
    /\ Trim(l.windows[i].app_name) # <<>>
    /\ Trim(l.windows[i].bundle_id) # <<>>

\* C31: a layout that passed validation, the one a successful save stored or
\* the one a successful load returned, has a non-empty bundle id and a
\* non-empty application name in every window.
C31_ValidatedIdentityNonEmpty ==
  /\ (ret[1].kind = "save" /\ ret[1].val.tag = "Ok") =>
       IdentityNonEmpty(wrote[1].layout)
  /\ (ret[1].kind = "load" /\ ret[1].val.tag = "Ok") =>
       IdentityNonEmpty(ret[1].val.value)

\* The index of the first window of ws that breaks a rule, 0 when none does.
FirstBad(ws) ==
  IF \E i \in 1..Len(ws) : WindowBreaksRule(ws[i])
  THEN CHOOSE i \in 1..Len(ws) :
         /\ WindowBreaksRule(ws[i])
         /\ \A j \in 1..(i - 1) : ~WindowBreaksRule(ws[j])
  ELSE 0

Blank(str) == \A i \in 1..Len(str) : str[i] = " "

\* The first field of w, in the order of the checks, that breaks its rule.
BrokenField(w) ==
  IF Blank(w.app_name) THEN "app_name"
  ELSE IF Blank(w.title) THEN "title"
  ELSE IF \/ w.width \in {NaN, PosInf, NegInf} \/ w.width < 0
          \/ w.height \in {NaN, PosInf, NegInf} \/ w.height < 0 THEN "size"
  ELSE IF w.x \in {NaN, PosInf, NegInf} \/ w.y \in {NaN, PosInf, NegInf}
       THEN "position"
  ELSE "display_uuid"

\* The field an error of validate_layout names in its message.
FieldNamed(e) ==
  CASE e = "AppNameEmpty" -> "app_name"
    [] e = "TitleEmpty" -> "title"
    [] e = "InvalidSize" -> "size"
    [] e = "InvalidPosition" -> "position"
    [] e = "DisplayEmpty" -> "display_uuid"
    [] OTHER -> "layout_name"

\* C32: a save refused by validation returns the error of the first
\* violation: a name error when the name is invalid, otherwise the error of
\* the first offending window, naming its field; and the error tells the
\* index of that window, so no window list whose first offending window has
\* another index is refused with the same error.
C32_FirstViolationWithIndex ==
  (/\ ret[1].kind = "save"
   /\ ret[1].val.tag = "Err"
   /\ ret[1].val.err \in NameErrors \cup WindowErrors) =>
     IF NameBreaksRule(ret[1].name)
     THEN ret[1].val.err \in NameErrors
     ELSE LET ws == wrote[1].layout.windows
              k == FirstBad(ws)
          IN  /\ k # 0
              /\ FieldNamed(ret[1].val.err) = BrokenField(ws[k])
              /\ \A other \in SaveInputs :
                   validate_windows(other, 1) = ret[1].val.err =>
                     FirstBad(other) = k

\* C32 without the index: the error is the one of the first violation and
\* names its field.
C32_FirstViolationField ==
  (/\ ret[1].kind = "save"
   /\ ret[1].val.tag = "Err"
   /\ ret[1].val.err \in NameErrors \cup WindowErrors) =>
     IF NameBreaksRule(ret[1].name)
     THEN ret[1].val.err \in NameErrors
     ELSE LET ws == wrote[1].layout.windows
              k == FirstBad(ws)
          IN  /\ k # 0
              /\ FieldNamed(ret[1].val.err) = BrokenField(ws[k])

\* parse_window, lines 193-199: the WindowLevel of the raw kCGWindowLayer
\* value of a live window.
LevelOfRaw(raw) ==
  CASE raw = 0 -> LevelNormal
    [] raw = 3 -> LevelFloating
    [] raw = 8 -> LevelModal
    [] raw = 20 -> LevelDock
    [] OTHER -> LevelNormal

\* Raw layer values of live windows: the four known ones and others.
RawLevels == {0, 3, 8, 20, 0 - 1, 1, 25, 1000}

\* C33: a raw level that is none of the four known ones becomes Normal when
\* a live window is captured, and a stored record whose window has an
\* unknown level is loaded, with that window at level Normal.
C33_UnknownLevelIsNormal ==
  /\ \A raw \in RawLevels :
       raw \notin {LevelNormal, LevelFloating, LevelModal, LevelDock} =>
         LevelOfRaw(raw) = LevelNormal
  /\ ( /\ FileOf(<<"a">>) \in DOMAIN files
       /\ files[FileOf(<<"a">>)] = UnknownLevelText ) =>
       /\ LoadResult(<<"a">>, TRUE).tag = "Ok"
       /\ LoadResult(<<"a">>, TRUE).value.windows =
            <<[EditorWindow EXCEPT !.window_level = LevelNormal]>>

\* C34: a call-level error is one of the four that restore_layout returns
\* before the apply phase: when the result is an error the call has
\* returned, no window was handed to restore_window, no apply attempt and no
\* settle delay was made, and what was launched before stays on record.
C34_ErrorBeforeApply ==
  result.tag = "Err" =>
    /\ pc = "returned"
    /\ result.err \in {"PermissionRequired", "RefreshFailed", "LaunchFailed",
                       "LaunchTimeout"}
    /\ settleCount = 0
    /\ processed = <<>>
    /\ applyCount = 0
    /\ success_count = 0
    /\ failed_windows = <<>>
    /\ Range(launched_apps) \subseteq Range(launchLog)

\* A call of two applications returned the timeout of the second while the
\* first, launched by the same call, is running.
C34_Witness ==
  /\ pc = "returned"
  /\ result = Err("LaunchTimeout")
  /\ Len(launched_apps) = 2
  /\ launched_apps[1] \in running
  /\ timedOut = {launched_apps[2]}
  /\ applyCount = 0

\* C35: the look at the existing record never ends a save: the save goes on
\* to build its record, with created_at read from the clock when the text
\* of the file is no record (and from the clock or the record otherwise);
\* and the save that then returns Ok has stored the well-formed record it
\* built, with that created_at.
C35_UnreadableRecordReplaced ==
  /\ [][ ( /\ op[1].kind = "save"
           /\ op[1].step = "read"
           /\ op'[1] # op[1] ) =>
         LET f == FileOf(op[1].name) IN
           /\ op'[1].kind = "save"
           /\ op'[1].step = "build"
           /\ ret'[1] = ret[1]
           /\ IF f \in DOMAIN files /\ Parse(files[f]).ok
              THEN op'[1].created_at \in
                     {clock, Parse(files[f]).layout.created_at}
              ELSE op'[1].created_at = clock ]_vars
  /\ [][ ( /\ op[1].kind = "save"
           /\ op[1].step = "write"
           /\ op'[1].kind = "idle"
           /\ ret'[1].val.tag = "Ok" ) =>
         LET f == FileOf(op[1].name) IN
           /\ f \in DOMAIN files'
           /\ Parse(files'[f]).ok
           /\ Parse(files'[f]).layout = wrote[1].layout
           /\ Parse(files'[f]).layout.created_at = op[1].created_at ]_vars

\* A save under a name whose file was there but held no record of a
\* successful save has returned Ok, and the record it stored has a
\* created_at read from the clock after the file was made.
C35_Witness ==
  /\ SaveReturned(<<"a">>)
  /\ wrote[1].before.found
  /\ ~wrote[1].before.set
  /\ Parse(files[FileOf(<<"a">>)]).layout.created_at = MaxClock
  /\ Parse(files[FileOf(<<"a">>)]).layout.windows = <<EditorWindow>>

\* C36: with records written by save alone, a load that has returned Ok
\* returned a layout named as the name it was called with; and the load of a
\* name succeeds, a failing read of the file apart, exactly when list
\* returns the name and layout_exists is true of it.
C36_LoadListExistsAgree ==
  \A n \in ListNames :
    (Returned1("load") /\ ret[1].name = n) =>
      /\ ret[1].val.tag = "Ok" => ret[1].val.value.layout_name = n
      /\ IF /\ layout_exists(n)
            /\ \A order \in DirOrders : n \in Range(sort(Collect(order, 1)))
         THEN ret[1].val.tag = "Ok" \/ ret[1].val.err = "Io"
         ELSE ret[1].val.tag = "Err"

\* ------------------------------------------------------- FFI error codes
\* The code the FFI returns for the value a call ended with tells the kind
\* of failure: 0 for success alone, FILE_IO for an io::Error, JSON for a
\* serde_json::Error, PERMISSION_DENIED for the missing permission, and
\* UNKNOWN for none of these.
CodeTellsKind(val) ==
  LET code == result_to_error_code(val) IN
    /\ code = ERROR_SUCCESS <=> val.tag = "Ok"
    /\ (val.tag = "Err" /\ val.err \in {"Io", "IoNotFound"}) =>
         code = ERROR_FILE_IO
    /\ (val.tag = "Err" /\ val.err = "Json") => code = ERROR_JSON
    /\ (val.tag = "Err" /\ val.err = "PermissionRequired") =>
         code = ERROR_PERMISSION_DENIED
    /\ code = ERROR_UNKNOWN =>
         val.err \notin {"Io", "IoNotFound", "Json", "PermissionRequired"}

\* C38: the error code of every save, load and delete that returned, and of
\* the restore call, tells the kind of its failure.
C38_CodeIdentifiesKind ==
  /\ \A p \in Procs :
       ret[p].kind \in {"save", "load", "delete"} => CodeTellsKind(ret[p].val)
  /\ result.tag \in {"Ok", "Err"} => CodeTellsKind(result)

\* C37: once an extern "C" call of a thread has returned, a
\* get_last_error_message gives the message of that call's error when the
\* call returned a non-zero code and the empty string when it returned 0,
\* whatever calls were made before it or by the other thread.
C37_LastErrorIsOwn ==
  \A p \in Procs :
    ffi[p].stage = "returned" =>
      IF ffi[p].code = ERROR_SUCCESS
      THEN get_last_error_message = ""
      ELSE get_last_error_message = ffi[p].err

\* C37 for a single thread: the same while the other thread makes no call.
C37_LastErrorIsOwnSingleThread ==
  (ffi[2].stage = "none" /\ ffi[1].stage = "returned") =>
    IF ffi[1].code = ERROR_SUCCESS
    THEN get_last_error_message = ""
    ELSE get_last_error_message = ffi[1].err

\* C37 for a single thread and names that are strings.
C37_LastErrorIsOwnStringNames ==
  (/\ ffi[2].stage = "none"
   /\ ffi[1].stage = "returned"
   /\ ffi[1].err \notin {"null", "not_utf8"}) =>
    IF ffi[1].code = ERROR_SUCCESS
    THEN get_last_error_message = ""
    ELSE get_last_error_message = ffi[1].err

\* The windows of ws that pass the per-window checks of validate_layout.
PassingWindows(ws) == SelectSeq(ws, LAMBDA w : validate_window(w) = "Ok")

\* C39: the filter of save_current_layout keeps a scanned window exactly
\* when validate_layout's checks accept it, the windows handed to
\* save_layout are the accepted ones in scan order, the save under a valid
\* name never returns a window-validation error, and after a failed scan
\* the call goes on with no window and stores an empty layout.
C39_FilterMatchesValidation ==
  /\ [](ffi[1].stage = "scanned" =>
          /\ \A i \in 1..Len(ffi[1].scan.windows) :
               filter_keeps(ffi[1].scan.windows[i]) <=>
                 validate_window(ffi[1].scan.windows[i]) = "Ok"
          /\ ~ffi[1].scan.ok => ffi[1].scan.windows = <<>>
          /\ op[1].kind = "save" =>
               op[1].windows = PassingWindows(ffi[1].scan.windows)
          /\ ret[1].val.err \notin WindowErrors)
  /\ []((/\ ffi[1].stage = "returned"
         /\ ffi[1].fn = "save_current_layout"
         /\ ffi[1].err \notin {"null", "not_utf8"}) =>
          /\ ffi[1].err \notin WindowErrors
          /\ ffi[1].code = ERROR_SUCCESS =>
               /\ FileOf(ffi[1].name) \in DOMAIN files
               /\ Parse(files[FileOf(ffi[1].name)]).ok
               /\ Parse(files[FileOf(ffi[1].name)]).layout.windows =
                    PassingWindows(ffi[1].scan.windows))
  /\ [][ (ffi[1].stage = "body" /\ ffi'[1].stage = "scanned") =>
           (ret'[1] = NoReturn /\ op'[1].kind = "idle") ]_vars

\* A scan of a valid window and one with an empty title was saved: the
\* stored layout holds the valid window alone.
C39_Witness ==
  /\ ffi[1].stage = "returned"
  /\ ffi[1].code = ERROR_SUCCESS
  /\ ffi[1].scan.ok
  /\ ffi[1].scan.windows = <<EditorWindow, [EditorWindow EXCEPT !.title = <<>>]>>
  /\ Parse(files[FileOf(<<"a">>)]).layout.windows = <<EditorWindow>>
====
